---- MODULE Spec2Model ----
(***************************************************************************)
(* Model of perfsession/symbolize.go: the per-session symbol table cache   *)
(* (getSymbolicExtra), the image loaders (newSymbolicExtra, newKallsyms,   *)
(* dwarfFuncTable, elfFuncTable, dwarfLineTable, setFuncHighPCs) and the   *)
(* address resolver (Symbolize, symbolicExtra.findIP).                     *)
(***************************************************************************)
EXTENDS Integers, Sequences, FiniteSets, TLC

\* uint64 arithmetic is modular; the model scales 2^64 down to Mod.
Mod == 8
\* Number of Symbolize calls issued on the session.
MaxCalls == 2
\* Range tables drawn as inputs of findIP / setFuncHighPCs: length and
\* largest address.
MaxLen == 3
MaxPC == 4

Addrs == 0 .. (Mod - 1)

Sub64(a, b) == (a - b + Mod) % Mod
Add64(a, b) == (a + b) % Mod

----------------------------------------------------------------------------
(* Go values *)

\* A slice is nil or holds elements; len(nil) = 0.
NilSlice == [isNil |-> TRUE, a |-> <<>>]
MakeSlice(seq) == [isNil |-> FALSE, a |-> seq]

\* (*symbolicExtra)(nil), as a loader's result
NilExtra == [isNil |-> TRUE]

\* type symbolicExtra struct
symbolicExtra(functab, linetab, isReloc) ==
    [isNil |-> FALSE, functab |-> functab, linetab |-> linetab,
     isReloc |-> isReloc]

\* type funcRange struct.  stored, filters and hits are history fields:
\* the name the loader stored, how often demangle.Filter was applied to the
\* range and how often findIP matched it.
funcRange(name, lowpc, highpc, demangled) ==
    [name |-> name, lowpc |-> lowpc, highpc |-> highpc,
     demangled |-> demangled, stored |-> name, filters |-> 0, hits |-> 0]

\* dwarf.LineEntry, reduced to the fields the resolver reads.
LineEntry(addr, line, endSeq) ==
    [Address |-> addr, Line |-> line, EndSequence |-> endSeq]

\* dwarf.LineEntry{}
ZeroLine == LineEntry(0, 0, FALSE)

----------------------------------------------------------------------------
(* demangle.Filter: a mangled C++ name becomes its readable form, any      *)
(* other string is returned unchanged.                                     *)
Mangled == [n \in {"_Z3foov", "_Z3bazv", "_Z1fv"} |->
              CASE n = "_Z3foov" -> "foo()"
                [] n = "_Z3bazv" -> "baz()"
                [] n = "_Z1fv" -> "f()"]

Filter(name) ==
    IF name \in DOMAIN Mangled THEN Mangled[name] ELSE name

----------------------------------------------------------------------------
(* sort.Search(n, f): smallest i in [0, n] with f(i), by bisection.        *)
(* pred[h + 1] is f(h).                                                    *)
RECURSIVE SearchLoop(_, _, _)
SearchLoop(pred, i, j) ==
    IF i < j
    THEN LET h == (i + j) \div 2
         IN  IF ~pred[h + 1]
             THEN SearchLoop(pred, h + 1, j)
             ELSE SearchLoop(pred, i, h)
    ELSE i

Search(pred) == SearchLoop(pred, 0, Len(pred))

\* funcRangeSorter.Less
Less(x, y) == x.lowpc < y.lowpc

IsSortedBy(seq) ==
    \A i \in 1 .. (Len(seq) - 1) : ~Less(seq[i + 1], seq[i])

\* sort.Sort(funcRangeSorter(out)): not stable, so any ordering of the
\* elements that is sorted by Less may result.
RECURSIVE Orderings(_, _)
Orderings(seq, idx) ==
    IF idx = {} THEN {<<>>}
    ELSE UNION {{<<seq[i]>> \o t : t \in Orderings(seq, idx \ {i})} : i \in idx}

SortFuncs(seq) == {s \in Orderings(seq, 1 .. Len(seq)) : IsSortedBy(s)}

\* setFuncHighPCs
setFuncHighPCsLastOnly(functab) ==
    [i \in 1 .. Len(functab) |->
        IF functab[i].highpc = functab[i].lowpc /\ i = Len(functab)
        THEN [functab[i] EXCEPT !.highpc = Add64(functab[i].highpc, 1)]
        ELSE functab[i]]

setFuncHighPCs(functab) ==
    [i \in 1 .. Len(functab) |->
        IF functab[i].highpc = functab[i].lowpc
        THEN IF i = Len(functab)
             THEN [functab[i] EXCEPT !.highpc = Add64(functab[i].highpc, 1)]
             ELSE [functab[i] EXCEPT !.highpc = functab[i + 1].lowpc]
        ELSE functab[i]]

----------------------------------------------------------------------------
(* symbolicExtra.findIP.  Returns the index of the matched function range  *)
(* (0 for f == nil), the index of the matched line entry (0 for l == nil)  *)
(* and the table after the in-place demangling of the matched range.       *)

\* lines 208-211: the lookup address
TranslateSwapped(s, mmap, ip) ==
    IF s.isReloc THEN Add64(Sub64(ip, mmap.FileOffset), mmap.Addr) ELSE ip

Translate(s, mmap, ip) ==
    IF s.isReloc THEN Add64(Sub64(ip, mmap.Addr), mmap.FileOffset) ELSE ip

\* lines 212-215: binary search of functab
FindFuncNoLowCheck(functab, ip) ==
    LET i == Search([h \in 1 .. Len(functab) |-> ip < functab[h].highpc])
    IN  IF i < Len(functab) /\ ip < functab[i + 1].highpc
        THEN i + 1 ELSE 0

FindFunc(functab, ip) ==
    LET i == Search([h \in 1 .. Len(functab) |-> ip < functab[h].highpc])
    IN  IF i < Len(functab) /\ functab[i + 1].lowpc <= ip
                            /\ ip < functab[i + 1].highpc
        THEN i + 1 ELSE 0

\* lines 216-220: lazy demangling of the matched range
DemangleAlways(f) ==
    [f EXCEPT !.name = Filter(f.name), !.demangled = TRUE,
              !.filters = f.filters + 1]

Demangle(f) ==
    IF ~f.demangled
    THEN [f EXCEPT !.name = Filter(f.name), !.demangled = TRUE,
                   !.filters = f.filters + 1]
    ELSE f

\* lines 224-231: binary search of linetab
FindLine(linetab, ip) ==
    LET i == Search([h \in 1 .. Len(linetab) |-> ip < linetab[h].Address])
    IN  IF i # 0 /\ ~linetab[i].EndSequence THEN i ELSE 0

findIP(s, mmap, ip) ==
    LET ip1 == IF ~s.functab.isNil THEN Translate(s, mmap, ip) ELSE ip
        fi == IF ~s.functab.isNil THEN FindFunc(s.functab.a, ip1) ELSE 0
        s1 == IF fi # 0
              THEN [s EXCEPT !.functab.a[fi] =
                        [Demangle(s.functab.a[fi]) EXCEPT !.hits = @ + 1]]
              ELSE s
        li == IF ~s.linetab.isNil THEN FindLine(s.linetab.a, ip1) ELSE 0
    IN  [f |-> fi, l |-> li, s |-> s1]

----------------------------------------------------------------------------
(* The files the loaders read.  A file is described by what elf.Open,      *)
(* elff.DWARF, elff.Symbols, dwarff.Reader, dwarff.LineReader and          *)
(* bufio.Scanner report for it.                                            *)

Some(x) == <<x>>
None == <<>>

NoFile ==
    [exists |-> FALSE, elf |-> FALSE, Type |-> "ET_NONE", debugInfo |-> FALSE,
     dwarfErr |-> FALSE, entries |-> <<>>, cus |-> <<>>, symsErr |-> "nil",
     syms |-> <<>>, Sections |-> <<>>, text |-> <<>>, scanErr |-> FALSE]

ElfFile(type, symsErr, syms, sections) ==
    [NoFile EXCEPT !.exists = TRUE, !.elf = TRUE, !.Type = type,
                   !.symsErr = symsErr, !.syms = syms, !.Sections = sections]

DwarfFile(dwarfErr, entries, cus) ==
    [NoFile EXCEPT !.exists = TRUE, !.elf = TRUE, !.Type = "ET_EXEC",
                   !.debugInfo = TRUE, !.dwarfErr = dwarfErr,
                   !.entries = entries, !.cus = cus]

TextFile(lines, scanErr) ==
    [NoFile EXCEPT !.exists = TRUE, !.text = lines, !.scanErr = scanErr]

\* a DWARF entry: its tag and the attributes dwarfFuncTable reads
Entry(tag, linkage, name, lowpc, hiClass, hiVal) ==
    [tag |-> tag, linkage |-> linkage, name |-> name, lowpc |-> lowpc,
     highpc |-> [class |-> hiClass, val |-> hiVal]]

\* a compilation unit as dwarfLineTable sees it
CU(lineErr, noLines, lines, nextErr) ==
    [lineErr |-> lineErr, noLines |-> noLines, lines |-> lines,
     nextErr |-> nextErr]

\* elf.Symbol; Section 0 is SHN_UNDEF
Sym(name, value, size, type, section) ==
    [Name |-> name, Value |-> value, Size |-> size, Type |-> type,
     Section |-> section]

Sect(addr, offset) == [Addr |-> addr, Offset |-> offset]

\* one line of a kallsyms file: whether kallsymsRe matches, and its groups
KLine(match, addr, typ, name) ==
    [match |-> match, addr |-> addr, typ |-> typ, name |-> name]

AppEntries ==
    << Entry("CompileUnit", None, Some("app.c"), None, "none", 0),
       Entry("Subprogram", Some("_Z3foov"), Some("foo"), Some(1), "address", 3),
       Entry("Subprogram", None, Some("_Z3bazv"), Some(3), "constant", 2),
       Entry("Subprogram", None, Some("nolow"), None, "constant", 2),
       Entry("Subprogram", None, Some("nohigh"), Some(6), "none", 0),
       Entry("Subprogram", None, None, Some(6), "constant", 1),
       Entry("Variable", None, Some("v"), None, "none", 0) >>

AppCUs ==
    << CU(FALSE, FALSE,
          << LineEntry(1, 10, FALSE), LineEntry(3, 20, FALSE),
             LineEntry(5, 20, TRUE) >>, FALSE),
       CU(FALSE, TRUE, <<>>, FALSE) >>

\* two compilation units whose line programs are not in address order
App2Entries ==
    << Entry("Subprogram", None, Some("main"), Some(4), "constant", 2),
       Entry("Subprogram", None, Some("init"), Some(0), "constant", 2) >>

App2CUs ==
    << CU(FALSE, FALSE, << LineEntry(4, 40, FALSE), LineEntry(6, 41, TRUE) >>, FALSE),
       CU(FALSE, FALSE, << LineEntry(0, 10, FALSE), LineEntry(2, 11, TRUE) >>, FALSE) >>

LibSections == << Sect(0, 0), Sect(2, 1) >>

LibSyms ==
    << Sym("_Z1fv", 3, 2, "FUNC", 1),
       Sym("alias", 3, 0, "FUNC", 1),
       Sym("g", 5, 0, "FUNC", 1),
       Sym("data", 6, 1, "OBJECT", 1),
       Sym("ext", 0, 0, "FUNC", 0),
       Sym("odd", 1, 1, "FUNC", 7) >>

StaticSyms ==
    << Sym("_Z3foov", 4, 0, "FUNC", 1),
       Sym("main", 1, 3, "FUNC", 1) >>

KallsymsText ==
    << KLine(TRUE, 3, "t", "do_fork"),
       KLine(FALSE, 0, "", ""),
       KLine(TRUE, 2, "D", "jiffies"),
       KLine(TRUE, 1, "T", "start_kernel") >>

\* logical filenames recorded in mappings
Filenames ==
    {"/bin/app", "/bin/app2", "/lib/libc.so", "/lib/gone.so", "/bin/static",
     "/tmp/obj.o", "/bin/stripped", "/bin/corruptsym", "/bin/corruptline",
     "/bin/truncline", "/bin/baddwarf", "//anon", "[kernel.kallsyms]_text",
     "[kernel.kallsyms]"}

\* session.File.Meta.BuildIDs
BuildIDs ==
    << [Filename |-> "/bin/app", BuildID |-> "a0"],
       [Filename |-> "/lib/gone.so", BuildID |-> "b0"],
       [Filename |-> "/lib/gone.so", BuildID |-> "b1"],
       [Filename |-> "[kernel.kallsyms]", BuildID |-> "c1"],
       [Filename |-> "[kernel.kallsyms]", BuildID |-> "c0"],
       [Filename |-> "/lib/libc.so", BuildID |-> "b1"] >>

\* line 99: buildIDDir/.build-id/<2 chars>/<rest>
CachePath(bid) ==
    CASE bid = "a0" -> "~/.debug/.build-id/a0/"
      [] bid = "b0" -> "~/.debug/.build-id/b0/"
      [] bid = "b1" -> "~/.debug/.build-id/b1/"
      [] bid = "c0" -> "~/.debug/.build-id/c0/"
      [] bid = "c1" -> "~/.debug/.build-id/c1/"

Disk(path) ==
    CASE path = "/bin/app" -> DwarfFile(FALSE, AppEntries, AppCUs)
      [] path = "/bin/app2" -> DwarfFile(FALSE, App2Entries, App2CUs)
      [] path = "/lib/libc.so" -> ElfFile("ET_DYN", "nil", LibSyms, LibSections)
      [] path = "~/.debug/.build-id/b1/" ->
             ElfFile("ET_DYN", "nil", LibSyms, LibSections)
      [] path = "/bin/static" ->
             ElfFile("ET_EXEC", "nil", StaticSyms, LibSections)
      [] path = "/tmp/obj.o" -> ElfFile("ET_REL", "nil", StaticSyms, LibSections)
      [] path = "/bin/stripped" ->
             ElfFile("ET_EXEC", "ErrNoSymbols", <<>>, LibSections)
      [] path = "/bin/corruptsym" -> ElfFile("ET_DYN", "other", <<>>, LibSections)
      [] path = "/bin/corruptline" ->
             DwarfFile(FALSE, App2Entries, << CU(TRUE, FALSE, <<>>, FALSE) >>)
      [] path = "/bin/truncline" ->
             DwarfFile(FALSE, App2Entries,
                       << CU(FALSE, FALSE, << LineEntry(0, 10, FALSE) >>, TRUE) >>)
      [] path = "/bin/baddwarf" -> DwarfFile(TRUE, <<>>, <<>>)
      [] path = "~/.debug/.build-id/c0/" -> TextFile(KallsymsText, FALSE)
      [] path = "~/.debug/.build-id/c1/" -> TextFile(KallsymsText, TRUE)
      [] OTHER -> NoFile

----------------------------------------------------------------------------
(* The loaders.  Each returns the set of its possible outcomes (the sort   *)
(* may order equal keys either way): err for a returned error, fatal for   *)
(* a call of log.Fatal, which ends the process.                            *)

RECURSIVE Flatten(_)
Flatten(ss) == IF ss = <<>> THEN <<>> ELSE Head(ss) \o Flatten(Tail(ss))

\* dwarfFuncTable, lines 257-290: the range one DWARF entry contributes
DwarfRange(ent) ==
    IF ent.tag # "Subprogram" THEN <<>>
    ELSE LET hasLinkage == Len(ent.linkage) = 1
             name == IF hasLinkage THEN ent.linkage ELSE ent.name
             demangled == hasLinkage
         IN  IF Len(name) = 0 THEN <<>>
             ELSE IF Len(ent.lowpc) = 0 THEN <<>>
             ELSE IF ent.highpc.class = "address"
                  THEN << funcRange(name[1], ent.lowpc[1], ent.highpc.val,
                                    demangled) >>
             ELSE IF ent.highpc.class = "constant"
                  THEN << funcRange(name[1], ent.lowpc[1],
                                    Add64(ent.lowpc[1], ent.highpc.val),
                                    demangled) >>
             ELSE <<>>

dwarfFuncTable(file) ==
    LET out == Flatten([k \in 1 .. Len(file.entries) |->
                           DwarfRange(file.entries[k])])
    IN  {IF Len(t) = 0 THEN NilSlice ELSE MakeSlice(t) : t \in SortFuncs(out)}

\* dwarfLineTable
RECURSIVE LineLoop(_, _, _)
LineLoop(cus, k, out) ==
    IF k > Len(cus) THEN [fatal |-> FALSE, out |-> MakeSlice(out)]
    ELSE IF cus[k].lineErr THEN [fatal |-> TRUE, out |-> MakeSlice(out)]
    ELSE IF cus[k].noLines THEN LineLoop(cus, k + 1, out)
    ELSE IF cus[k].nextErr
         THEN [fatal |-> TRUE, out |-> MakeSlice(out \o cus[k].lines)]
    ELSE LineLoop(cus, k + 1, out \o cus[k].lines)

dwarfLineTable(file) == LineLoop(file.cus, 1, <<>>)

\* elfFuncTable, lines 322-337: the range one symbol contributes
ElfRange(file, sym, isReloc) ==
    IF sym.Type # "FUNC" \/ sym.Section = 0 THEN <<>>
    ELSE IF isReloc
         THEN IF sym.Section >= Len(file.Sections) THEN <<>>
              ELSE LET sec == file.Sections[sym.Section + 1]
                       lowpc == Add64(Sub64(sym.Value, sec.Addr), sec.Offset)
                   IN  << funcRange(sym.Name, lowpc, Add64(lowpc, sym.Size),
                                    FALSE) >>
         ELSE << funcRange(sym.Name, sym.Value, Add64(sym.Value, sym.Size),
                           FALSE) >>

elfFuncTable(file) ==
    IF file.Type \notin {"ET_EXEC", "ET_DYN"}
    THEN {[fatal |-> FALSE, out |-> NilSlice, isReloc |-> FALSE]}
    ELSE IF file.symsErr = "other"
    THEN {[fatal |-> TRUE, out |-> NilSlice, isReloc |-> FALSE]}
    ELSE IF file.symsErr = "ErrNoSymbols"
    THEN {[fatal |-> FALSE, out |-> NilSlice, isReloc |-> FALSE]}
    ELSE LET isReloc == file.Type = "ET_DYN"
             out == Flatten([k \in 1 .. Len(file.syms) |->
                                ElfRange(file, file.syms[k], isReloc)])
         IN  {[fatal |-> FALSE, out |-> MakeSlice(setFuncHighPCs(t)),
               isReloc |-> isReloc] : t \in SortFuncs(out)}

Failed == [err |-> TRUE, fatal |-> FALSE, extra |-> NilExtra]
Fatal == [err |-> FALSE, fatal |-> TRUE, extra |-> NilExtra]
Loaded(extra) == [err |-> FALSE, fatal |-> FALSE, extra |-> extra]

newSymbolicExtra(filename) ==
    LET elff == Disk(filename)
    IN  IF ~elff.exists \/ ~elff.elf THEN {Failed}
        ELSE IF elff.Type = "ET_EXEC" /\ elff.debugInfo
        THEN IF elff.dwarfErr THEN {Failed}
             ELSE IF dwarfLineTable(elff).fatal THEN {Fatal}
             ELSE {Loaded(symbolicExtra(ft, dwarfLineTable(elff).out, FALSE)) :
                      ft \in dwarfFuncTable(elff)}
        ELSE {IF r.fatal THEN Fatal
              ELSE Loaded(symbolicExtra(r.out, NilSlice, r.isReloc)) :
                 r \in elfFuncTable(elff)}

\* newKallsyms, lines 175-186: the range one line contributes
KallsymsRange(line) ==
    IF ~line.match THEN <<>>
    ELSE IF ~(line.typ = "t" \/ line.typ = "T") THEN <<>>
    ELSE << funcRange(line.name, line.addr, line.addr, TRUE) >>

newKallsyms(filename) ==
    LET f == Disk(filename)
    IN  IF ~f.exists THEN {Failed}
        ELSE IF f.scanErr THEN {Failed}
        ELSE LET functab == Flatten([k \in 1 .. Len(f.text) |->
                                        KallsymsRange(f.text[k])])
             IN  {Loaded(symbolicExtra(MakeSlice(setFuncHighPCs(t)), NilSlice,
                                       FALSE)) : t \in SortFuncs(functab)}

----------------------------------------------------------------------------
(* getSymbolicExtra *)

\* lines 80-84: strings.HasPrefix(filename, "[kernel.kallsyms]")
IsKallsyms(filename) ==
    filename \in {"[kernel.kallsyms]", "[kernel.kallsyms]_text"}

Normalize(filename) ==
    IF IsKallsyms(filename) THEN "[kernel.kallsyms]" ELSE filename

\* lines 97-109: the build ID cache.  Outcomes carry the number of loader
\* calls made.
RECURSIVE BuildIDLoop(_, _, _, _, _)
BuildIDLoop(filename, isKallsyms, k, extra, n) ==
    IF k > Len(BuildIDs) THEN {[fatal |-> FALSE, extra |-> extra, loads |-> n]}
    ELSE IF BuildIDs[k].Filename = filename
    THEN LET nfilename == CachePath(BuildIDs[k].BuildID)
             rs == IF isKallsyms THEN newKallsyms(nfilename)
                   ELSE newSymbolicExtra(nfilename)
         IN  UNION {IF r.fatal
                    THEN {[fatal |-> TRUE, extra |-> NilExtra, loads |-> n + 1]}
                    ELSE IF ~r.err
                    THEN {[fatal |-> FALSE, extra |-> r.extra, loads |-> n + 1]}
                    ELSE BuildIDLoop(filename, isKallsyms, k + 1, r.extra,
                                     n + 1) : r \in rs}
    ELSE BuildIDLoop(filename, isKallsyms, k + 1, extra, n)

\* lines 111-117: the original path
OriginalPathNever(filename, b) == {b}

OriginalPath(filename, b) ==
    IF b.fatal \/ ~b.extra.isNil THEN {b}
    ELSE {[fatal |-> r.fatal, extra |-> r.extra, loads |-> b.loads + 1] :
             r \in newSymbolicExtra(filename)}

\* lines 92-117: everything between the placeholder and the final store
Locate(filename, isKallsyms) ==
    UNION {OriginalPath(filename, b) :
              b \in BuildIDLoop(filename, isKallsyms, 1, NilExtra, 0)}

----------------------------------------------------------------------------
(* State *)

VARIABLES
    Extra,    \* session.Extra[symbolicExtraKey]: 0 if unset, else index in maps
    maps,     \* the map[string]*symbolicExtra objects; a pointer is an
              \* index in objs, 0 is the nil pointer
    objs,     \* the symbolicExtra objects the loaders allocated
    out,      \* the caller's Symbolic
    ret,      \* the last return value of Symbolize
    status,   \* "ready", "returned", or "exited" after log.Fatal
    last,     \* the last Symbolize call: its arguments, the pointer
              \* getSymbolicExtra returned and what findIP matched
    builds,   \* per filename: runs of the image locator (lines 90-119)
    loads,    \* per filename: calls of newSymbolicExtra and newKallsyms
    calls,    \* number of Symbolize calls issued
    pc,       \* interleaved callers: position of each
    loc,      \* interleaved callers: arguments, locals and results of each
    arg,      \* input of a stand-alone findIP or setFuncHighPCs run
    res       \* its result

vars == <<Extra, maps, objs, out, ret, status, last, builds, loads, calls,
          pc, loc, arg, res>>

Keys == {Normalize(f) : f \in Filenames}

Mmap(filename, addr, fileOffset) ==
    [Filename |-> filename, Addr |-> addr, FileOffset |-> fileOffset]

\* the session's mappings: one per file, two for the shared object
Mmaps ==
    {Mmap(f, 0, 0) : f \in Filenames \ {"/lib/libc.so", "/lib/gone.so"}}
        \cup {Mmap("/lib/libc.so", 3, 1), Mmap("/lib/libc.so", 6, 0),
              Mmap("/lib/gone.so", 1, 1)}

EmptyMap == [k \in {} |-> 0]

NoSymbolic == [FuncName |-> "", Line |-> ZeroLine]

Procs == {1, 2}

\* addresses the interleaved callers ask for
ProbeIPs == {1, 4}

IdleLoc ==
    [mmap |-> Mmap("//anon", 0, 0), ip |-> 0, filename |-> "//anon",
     tables |-> 0, extra |-> 0, f |-> 0, returned |-> FALSE, ret |-> FALSE,
     out |-> NoSymbolic]

NoArg == [functab |-> <<>>, isReloc |-> FALSE, mmap |-> Mmap("//anon", 0, 0),
          ip |-> 0]
NoRes == [done |-> FALSE, f |-> 0, functab |-> <<>>]

NoCall == [mmap |-> Mmap("//anon", 0, 0), ip |-> 0, ptr |-> 0, f |-> 0, l |-> 0]

InitSession ==
    /\ Extra = 0
    /\ maps = <<>>
    /\ objs = <<>>
    /\ out = NoSymbolic
    /\ ret = FALSE
    /\ status = "ready"
    /\ last = NoCall
    /\ builds = [k \in Keys |-> 0]
    /\ loads = [k \in Keys |-> 0]
    /\ calls = 0
    /\ pc = [p \in Procs |-> "idle"]
    /\ loc = [p \in Procs |-> IdleLoc]

Init ==
    /\ InitSession
    /\ arg = NoArg
    /\ res = NoRes

----------------------------------------------------------------------------
(* Symbolize, run to completion *)

\* line 86: extra, ok := tables[filename]
CacheHitNonNil(tables, filename) ==
    filename \in DOMAIN tables /\ tables[filename] # 0

CacheHit(tables, filename) == filename \in DOMAIN tables

\* lines 37-46 of Symbolize
Symbolic(old, s, r) ==
    [FuncName |-> IF r.f = 0 THEN "" ELSE s.functab.a[r.f].name,
     Line |-> IF r.l = 0 THEN ZeroLine ELSE s.linetab.a[r.l]]

\* lines 64-68: the tables map, created on first use
TablesRef == IF Extra = 0 THEN Len(maps) + 1 ELSE Extra
MapsWithTables == IF Extra = 0 THEN Append(maps, EmptyMap) ELSE maps

Store(ms, ref, filename, ptr) ==
    [ms EXCEPT ![ref] = (filename :> ptr) @@ ms[ref]]

\* lines 33-47 of Symbolize, given the pointer getSymbolicExtra returned
Resolve(ptr, os, mmap, ip) ==
    IF ptr = 0
    THEN /\ ret' = FALSE
         /\ out' = out
         /\ objs' = os
         /\ last' = [mmap |-> mmap, ip |-> ip, ptr |-> 0, f |-> 0, l |-> 0]
    ELSE LET r == findIP(os[ptr], mmap, ip)
         IN  /\ ret' = TRUE
             /\ out' = Symbolic(out, r.s, r)
             /\ objs' = [os EXCEPT ![ptr] = r.s]
             /\ last' = [mmap |-> mmap, ip |-> ip, ptr |-> ptr, f |-> r.f,
                         l |-> r.l]

Symbolize(mmap, ip) ==
    /\ status # "exited"
    /\ calls < MaxCalls
    /\ calls' = calls + 1
    /\ Extra' = TablesRef
    /\ UNCHANGED <<pc, loc, arg, res>>
    /\ LET filename == Normalize(mmap.Filename)
           tables == MapsWithTables[TablesRef]
       IN  IF CacheHit(tables, filename)
           THEN /\ maps' = MapsWithTables
                /\ status' = "returned"
                /\ UNCHANGED <<builds, loads>>
                /\ Resolve(tables[filename], objs, mmap, ip)
           ELSE \E b \in Locate(filename, IsKallsyms(mmap.Filename)) :
                  /\ builds' = [builds EXCEPT ![filename] = @ + 1]
                  /\ loads' = [loads EXCEPT ![filename] = @ + b.loads]
                  /\ IF b.fatal
                     THEN /\ status' = "exited"
                          /\ maps' = Store(MapsWithTables, TablesRef, filename, 0)
                          /\ last' = [mmap |-> mmap, ip |-> ip, ptr |-> 0,
                                      f |-> 0, l |-> 0]
                          /\ UNCHANGED <<objs, out, ret>>
                     ELSE LET os == IF b.extra.isNil THEN objs
                                    ELSE Append(objs, b.extra)
                              ptr == IF b.extra.isNil THEN 0 ELSE Len(os)
                          IN  /\ status' = "returned"
                              /\ maps' = Store(MapsWithTables, TablesRef,
                                               filename, ptr)
                              /\ Resolve(ptr, os, mmap, ip)

Next == \E mmap \in Mmaps, ip \in Addrs : Symbolize(mmap, ip)

Spec == Init /\ [][Next]_vars

----------------------------------------------------------------------------
(* Properties of a session whose Symbolize calls run one after another *)

\* the session's memoization table
Tables == IF Extra = 0 THEN EmptyMap ELSE maps[Extra]

\* some candidate path of the image locator yields an Image Table
Obtainable(mmapFilename) ==
    LET filename == Normalize(mmapFilename)
    IN  \/ \E k \in 1 .. Len(BuildIDs) :
              /\ BuildIDs[k].Filename = filename
              /\ \E r \in (IF IsKallsyms(mmapFilename)
                           THEN newKallsyms(CachePath(BuildIDs[k].BuildID))
                           ELSE newSymbolicExtra(CachePath(BuildIDs[k].BuildID))) :
                    ~r.err /\ ~r.fatal
        \/ \E r \in newSymbolicExtra(filename) : ~r.err /\ ~r.fatal

\* the address the last call looked up in functab
LastKey == Translate(objs[last.ptr], last.mmap, last.ip)

NoRangeHolds(s, a) ==
    \A i \in 1 .. Len(s.functab.a) :
        ~(s.functab.a[i].lowpc <= a /\ a < s.functab.a[i].highpc)

NoLineAtOrBelow(s, a) ==
    \A i \in 1 .. Len(s.linetab.a) : s.linetab.a[i].Address > a

\* C1: Symbolize returns false exactly when no Image Table can be obtained
\* for mmap.Filename; with an Image Table it returns true, and when ip lies
\* in no function range and at or above no line entry, out.FuncName is ""
\* and out.Line is the zero line entry.
C1_ReturnsFalseIffNoImage ==
    status = "returned" =>
        /\ ret = FALSE <=> ~Obtainable(last.mmap.Filename)
        /\ ret = TRUE => last.ptr # 0
        /\ (/\ ret = TRUE
            /\ NoRangeHolds(objs[last.ptr], LastKey)
            /\ NoLineAtOrBelow(objs[last.ptr], last.ip))
           => out = NoSymbolic

\* C1 witness: a second call finds an image with both tables, ip matches
\* nothing, and the name left in out by the first call has been cleared.
C1_Witness ==
    /\ status = "returned" /\ ret = TRUE /\ calls = 2
    /\ Len(objs[last.ptr].functab.a) > 0
    /\ Len(objs[last.ptr].linetab.a) > 0
    /\ NoRangeHolds(objs[last.ptr], LastKey)
    /\ NoLineAtOrBelow(objs[last.ptr], last.ip)
    /\ \E p \in 1 .. Len(objs) : \E i \in 1 .. Len(objs[p].functab.a) :
           objs[p].functab.a[i].hits > 0
    /\ out = NoSymbolic

\* C2: per filename the image locator runs at most once; once a filename is
\* in the table, no call changes its entry (a nil entry stays nil) or makes
\* another loader call for it; a call for a filename not yet in the table
\* runs the locator.
C2_OneBuildPerFilename ==
    /\ [](\A k \in Keys : builds[k] <= 1)
    /\ [][\A k \in Keys :
            /\ k \in DOMAIN Tables =>
                 /\ k \in DOMAIN Tables' /\ Tables'[k] = Tables[k]
                 /\ builds'[k] = builds[k] /\ loads'[k] = loads[k]
            /\ (k \notin DOMAIN Tables /\ calls' # calls
                    /\ Normalize(last'.mmap.Filename) = k)
                 => builds'[k] = 1 /\ k \in DOMAIN Tables']_vars

\* C2 witness: two calls for one filename whose image cannot be loaded; the
\* table holds the nil sentinel and the locator ran once.
C2_Witness ==
    /\ calls = 2 /\ status = "returned" /\ ret = FALSE
    /\ \E k \in Keys : /\ DOMAIN Tables = {k}
                       /\ Tables[k] = 0
                       /\ builds[k] = 1 /\ loads[k] >= 1

\* C5: demangle.Filter is applied at most once to each range, and once a
\* range's demangled bit is set the bit and the name never change.
C5_DemangleAtMostOnce ==
    /\ [](\A p \in 1 .. Len(objs) : \A i \in 1 .. Len(objs[p].functab.a) :
             objs[p].functab.a[i].filters <= 1)
    /\ [][\A p \in 1 .. Len(objs) : \A i \in 1 .. Len(objs[p].functab.a) :
            objs[p].functab.a[i].demangled =>
                /\ objs'[p].functab.a[i].demangled
                /\ objs'[p].functab.a[i].name = objs[p].functab.a[i].name]_vars

\* C5 witness: a range matched by two calls was filtered once.
C5_Witness ==
    \E p \in 1 .. Len(objs) : \E i \in 1 .. Len(objs[p].functab.a) :
        /\ objs[p].functab.a[i].hits = 2
        /\ objs[p].functab.a[i].filters = 1
        /\ objs[p].functab.a[i].name # objs[p].functab.a[i].stored

\* C7: no failure while building an Image Table ends the process.
C7_NeverFatal == status # "exited"

\* C8: for a range of any loader path, the function name Symbolize returns
\* for a matched range is the demangled form of the name the loader stored.
C8_ReturnsDemangledName ==
    (status = "returned" /\ ret = TRUE /\ last.f # 0) =>
        out.FuncName = Filter(objs[last.ptr].functab.a[last.f].stored)

\* C9: the line entry findIP returns is the one covering the untranslated
\* address: the entry with the greatest Address <= ip, returned unless it is
\* an end-of-sequence marker; no line when no entry has Address <= ip or
\* that entry is an end-of-sequence marker.
C9_LineCoversAddress ==
    (status = "returned" /\ ret = TRUE /\ ~objs[last.ptr].linetab.isNil) =>
        LET lt == objs[last.ptr].linetab.a
            below == {j \in 1 .. Len(lt) : lt[j].Address <= last.ip}
            best == {j \in below : \A h \in below : lt[h].Address <= lt[j].Address}
        IN  /\ last.l # 0 => last.l \in best /\ ~lt[last.l].EndSequence
            /\ last.l = 0 => \A j \in best : lt[j].EndSequence

----------------------------------------------------------------------------
(* Symbolize called from several goroutines.  Nothing in the code          *)
(* synchronizes them, so the calls interleave at every access to the       *)
(* shared session: session.Extra, the tables map, the symbolicExtra        *)
(* objects.                                                                *)

Set(p, fields) == [loc EXCEPT ![p] = fields @@ loc[p]]

\* Symbolize is entered
Call(p, mmap, ip) ==
    /\ status # "exited"
    /\ pc[p] = "idle"
    /\ calls < MaxCalls
    /\ calls' = calls + 1
    /\ pc' = [pc EXCEPT ![p] = "extra"]
    /\ loc' = Set(p, [mmap |-> mmap, ip |-> ip,
                      filename |-> Normalize(mmap.Filename), tables |-> 0,
                      extra |-> 0, f |-> 0, returned |-> FALSE])
    /\ UNCHANGED <<Extra, maps, objs, out, ret, status, last, builds, loads,
                   arg, res>>

\* line 64: tables, ok := session.Extra[symbolicExtraKey]
ReadExtra(p) ==
    /\ status # "exited"
    /\ pc[p] = "extra"
    /\ IF Extra # 0
       THEN /\ loc' = Set(p, [tables |-> Extra])
            /\ pc' = [pc EXCEPT ![p] = "lookup"]
       ELSE /\ pc' = [pc EXCEPT ![p] = "mkmap"]
            /\ loc' = loc
    /\ UNCHANGED <<Extra, maps, objs, out, ret, status, last, builds, loads,
                   calls, arg, res>>

\* lines 66-67: a new map is made and stored in session.Extra
MakeMap(p) ==
    /\ status # "exited"
    /\ pc[p] = "mkmap"
    /\ maps' = Append(maps, EmptyMap)
    /\ Extra' = Len(maps) + 1
    /\ loc' = Set(p, [tables |-> Len(maps) + 1])
    /\ pc' = [pc EXCEPT ![p] = "lookup"]
    /\ UNCHANGED <<objs, out, ret, status, last, builds, loads, calls, arg,
                   res>>

\* lines 86-89
Lookup(p) ==
    /\ status # "exited"
    /\ pc[p] = "lookup"
    /\ IF CacheHit(maps[loc[p].tables], loc[p].filename)
       THEN /\ loc' = Set(p, [extra |-> maps[loc[p].tables][loc[p].filename]])
            /\ pc' = [pc EXCEPT ![p] = "find"]
       ELSE /\ pc' = [pc EXCEPT ![p] = "placeholder"]
            /\ loc' = loc
    /\ UNCHANGED <<Extra, maps, objs, out, ret, status, last, builds, loads,
                   calls, arg, res>>

\* line 90: tables[filename] = (*symbolicExtra)(nil)
Placeholder(p) ==
    /\ status # "exited"
    /\ pc[p] = "placeholder"
    /\ maps' = Store(maps, loc[p].tables, loc[p].filename, 0)
    /\ builds' = [builds EXCEPT ![loc[p].filename] = @ + 1]
    /\ pc' = [pc EXCEPT ![p] = "load"]
    /\ UNCHANGED <<Extra, objs, out, ret, status, last, loads, calls, loc,
                   arg, res>>

\* lines 97-117: the image is located and loaded
Load(p) ==
    /\ status # "exited"
    /\ pc[p] = "load"
    /\ \E b \in Locate(loc[p].filename, IsKallsyms(loc[p].mmap.Filename)) :
          /\ loads' = [loads EXCEPT ![loc[p].filename] = @ + b.loads]
          /\ IF b.fatal
             THEN /\ status' = "exited"
                  /\ UNCHANGED <<objs, loc, pc>>
             ELSE /\ status' = status
                  /\ objs' = IF b.extra.isNil THEN objs
                             ELSE Append(objs, b.extra)
                  /\ loc' = Set(p, [extra |-> IF b.extra.isNil THEN 0
                                              ELSE Len(objs) + 1])
                  /\ pc' = [pc EXCEPT ![p] = "store"]
    /\ UNCHANGED <<Extra, maps, out, ret, last, builds, calls, arg, res>>

\* line 119: tables[filename] = extra
StoreExtra(p) ==
    /\ status # "exited"
    /\ pc[p] = "store"
    /\ maps' = Store(maps, loc[p].tables, loc[p].filename, loc[p].extra)
    /\ pc' = [pc EXCEPT ![p] = "find"]
    /\ UNCHANGED <<Extra, objs, out, ret, status, last, builds, loads, calls,
                   loc, arg, res>>

\* Symbolize lines 33-47 with findIP, up to the test of f.demangled on
\* line 217; the call ends here unless the name has to be demangled
Find(p) ==
    /\ status # "exited"
    /\ pc[p] = "find"
    /\ IF loc[p].extra = 0
       THEN /\ loc' = Set(p, [returned |-> TRUE, ret |-> FALSE])
            /\ pc' = [pc EXCEPT ![p] = "idle"]
            /\ objs' = objs
       ELSE LET s == objs[loc[p].extra]
                fi == IF ~s.functab.isNil
                      THEN FindFunc(s.functab.a,
                                    Translate(s, loc[p].mmap, loc[p].ip))
                      ELSE 0
            IN  IF fi # 0 /\ ~s.functab.a[fi].demangled
                THEN /\ loc' = Set(p, [f |-> fi])
                     /\ pc' = [pc EXCEPT ![p] = "demangle"]
                     /\ objs' = objs
                ELSE LET r == findIP(s, loc[p].mmap, loc[p].ip)
                     IN  /\ loc' = Set(p, [returned |-> TRUE, ret |-> TRUE,
                                           out |-> Symbolic(loc[p].out, r.s, r)])
                         /\ pc' = [pc EXCEPT ![p] = "idle"]
                         /\ objs' = [objs EXCEPT ![loc[p].extra] = r.s]
    /\ UNCHANGED <<Extra, maps, out, ret, status, last, builds, loads, calls,
                   arg, res>>

\* findIP lines 218-219, entered after the test of line 217 passed, and the
\* rest of the call
DemangleName(p) ==
    /\ status # "exited"
    /\ pc[p] = "demangle"
    /\ LET s == objs[loc[p].extra]
           s1 == [s EXCEPT !.functab.a[loc[p].f] =
                      [DemangleAlways(s.functab.a[loc[p].f]) EXCEPT
                          !.hits = @ + 1]]
           li == IF ~s.linetab.isNil
                 THEN FindLine(s.linetab.a, Translate(s, loc[p].mmap, loc[p].ip))
                 ELSE 0
       IN  /\ objs' = [objs EXCEPT ![loc[p].extra] = s1]
           /\ loc' = Set(p, [returned |-> TRUE, ret |-> TRUE,
                             out |-> Symbolic(loc[p].out, s1,
                                              [f |-> loc[p].f, l |-> li])])
    /\ pc' = [pc EXCEPT ![p] = "idle"]
    /\ UNCHANGED <<Extra, maps, out, ret, status, last, builds, loads, calls,
                   arg, res>>

\* Two goroutines at the same map, one of them writing it: the Go runtime
\* may detect the unsynchronized access and end the process ("concurrent
\* map writes", "concurrent map read and map write").
ConcurrentMapFault ==
    /\ status # "exited"
    /\ \E p, q \in Procs :
          /\ p # q
          /\ pc[p] \in {"placeholder", "store"}
          /\ pc[q] \in {"lookup", "placeholder", "store"}
          /\ loc[p].tables = loc[q].tables
    /\ status' = "exited"
    /\ UNCHANGED <<Extra, maps, objs, out, ret, last, builds, loads, calls,
                   pc, loc, arg, res>>

NextConc ==
    \/ \E p \in Procs, mmap \in Mmaps, ip \in ProbeIPs : Call(p, mmap, ip)
    \/ \E p \in Procs : ReadExtra(p)
    \/ \E p \in Procs : MakeMap(p)
    \/ \E p \in Procs : Lookup(p)
    \/ \E p \in Procs : Placeholder(p)
    \/ \E p \in Procs : Load(p)
    \/ \E p \in Procs : StoreExtra(p)
    \/ \E p \in Procs : Find(p)
    \/ \E p \in Procs : DemangleName(p)
    \/ ConcurrentMapFault

SpecConc == Init /\ [][NextConc]_vars

\* C10: with interleaved Symbolize calls the image locator still runs at
\* most once per filename, and a call returns false only when no Image Table
\* can be obtained for its filename (never because it read the placeholder
\* of a build in progress).
C10_SingleBuildNoPlaceholder ==
    /\ \A k \in Keys : builds[k] <= 1
    /\ \A p \in Procs :
          (loc[p].returned /\ ~loc[p].ret) => ~Obtainable(loc[p].mmap.Filename)

----------------------------------------------------------------------------
(* findIP on its own: every range table that is sorted by lowpc with each  *)
(* range ending at or before the start of the next, every mapping and      *)
(* address.                                                                *)

\* sorted tables of n ranges within lo .. hi, lowpc <= highpc, each
\* highpc <= the next lowpc
RECURSIVE SortedTables(_, _, _)
SortedTables(n, lo, hi) ==
    IF n = 0 THEN {<<>>}
    ELSE UNION {{<<funcRange("_Z1fv", lh[1], lh[2], FALSE)>> \o t :
                    t \in SortedTables(n - 1, lh[2], hi)} :
                  lh \in {x \in (lo .. hi) \X (lo .. hi) : x[1] <= x[2]}}

FindInputs(maxLen) ==
    [functab : UNION {SortedTables(n, 0, MaxPC) : n \in 0 .. maxLen},
     isReloc : BOOLEAN,
     mmap : {Mmap("/lib/libc.so", a, o) : a \in {0, 3, Mod - 1}, o \in {0, 1}},
     ip : Addrs]

InitFind ==
    /\ InitSession
    /\ arg \in FindInputs(MaxLen)
    /\ res = NoRes

FindStep ==
    /\ ~res.done
    /\ LET r == findIP(symbolicExtra(MakeSlice(arg.functab), NilSlice,
                                     arg.isReloc), arg.mmap, arg.ip)
       IN  res' = [done |-> TRUE, f |-> r.f, functab |-> r.s.functab.a]
    /\ UNCHANGED <<Extra, maps, objs, out, ret, status, last, builds, loads,
                   calls, pc, loc, arg>>

SpecFind == InitFind /\ [][FindStep]_vars

\* the range of functab whose [lowpc, highpc) holds a; 0 if there is none
Holds(f, a) == f.lowpc <= a /\ a < f.highpc

RangeHolding(functab, a) ==
    IF \E i \in 1 .. Len(functab) : Holds(functab[i], a)
    THEN CHOOSE i \in 1 .. Len(functab) : Holds(functab[i], a)
    ELSE 0

SortedNonOverlapping(functab) ==
    /\ \A i \in 1 .. Len(functab) : functab[i].lowpc <= functab[i].highpc
    /\ \A i \in 1 .. (Len(functab) - 1) :
          functab[i].highpc <= functab[i + 1].lowpc

C6_LookupKeyIsTranslated ==
    res.done =>
        LET key == IF arg.isReloc
                   THEN (arg.ip + Mod - arg.mmap.Addr + arg.mmap.FileOffset) % Mod
                   ELSE arg.ip
            k == (arg.ip + Mod - arg.mmap.Addr) % Mod
        IN  /\ res.f = RangeHolding(arg.functab, key)
            /\ (arg.isReloc /\ arg.mmap.FileOffset = 0)
                  => res.f = RangeHolding(arg.functab, k)

\* C6 witness: a file-offset table, FileOffset 0, a mapping loaded above the
\* table's offsets, and a match.
C6_Witness ==
    /\ res.done /\ arg.isReloc /\ arg.mmap.FileOffset = 0
    /\ arg.mmap.Addr > MaxPC /\ arg.ip < arg.mmap.Addr
    /\ res.f # 0
    /\ Holds(arg.functab[res.f], (arg.ip + Mod - arg.mmap.Addr) % Mod)
    /\ ~Holds(arg.functab[res.f], arg.ip)

----------------------------------------------------------------------------
(* The sort and gap-filling that end elfFuncTable and newKallsyms, on      *)
(* their own: every list of pairwise non-overlapping ranges, in any order, *)
(* within the MaxPC + 1 highest addresses.                                 *)

FillInputs(maxLen) ==
    UNION {Orderings(t, 1 .. Len(t)) :
              t \in UNION {SortedTables(n, Mod - 1 - MaxPC, Mod - 1) :
                              n \in 0 .. maxLen}}

InitFill ==
    /\ InitSession
    /\ arg \in [functab : FillInputs(MaxLen), isReloc : {FALSE},
                mmap : {Mmap("//anon", 0, 0)}, ip : {0}]
    /\ res = NoRes

\* lines 339-340 and 191-192: sort.Sort, then setFuncHighPCs
SortAndFill ==
    /\ ~res.done
    /\ \E t \in SortFuncs(arg.functab) :
          res' = [done |-> TRUE, f |-> 0, functab |-> setFuncHighPCs(t)]
    /\ UNCHANGED <<Extra, maps, objs, out, ret, status, last, builds, loads,
                   calls, pc, loc, arg>>

SpecFill == InitFill /\ [][SortAndFill]_vars

NonOverlapping(functab) ==
    /\ \A i \in 1 .. Len(functab) : functab[i].lowpc <= functab[i].highpc
    /\ \A i, j \in 1 .. Len(functab) :
          i # j => \/ functab[i].highpc <= functab[j].lowpc
                   \/ functab[j].highpc <= functab[i].lowpc

DistinctLows(functab) ==
    \A i, j \in 1 .. Len(functab) :
        i # j => functab[i].lowpc # functab[j].lowpc

\* C4 as stated, on inputs with distinct lows: for non-overlapping input
\* ranges, after the sort and the gap-filling the table covers every address
\* from the lowest low to the last high without gaps: every range's high
\* equals the next range's low.
C4_NoGapsNoOverlaps ==
    (res.done /\ NonOverlapping(arg.functab) /\ DistinctLows(arg.functab)) =>
        \A i \in 1 .. (Len(res.functab) - 1) :
            res.functab[i].highpc = res.functab[i + 1].lowpc

\* C4 amended: for non-overlapping input ranges with distinct lows, the
\* result is sorted by low without overlaps (each high <= the next low);
\* a range given with high = low ends at the next range's low, the last one
\* at low + 1 (modulo the word size); a range given with high > low keeps
\* its high, whatever gap that leaves before the next range.
C4_FillsOnlyZeroWidth ==
    (res.done /\ NonOverlapping(arg.functab) /\ DistinctLows(arg.functab)) =>
        LET in == arg.functab
            t == res.functab
            n == Len(t)
        IN  /\ n = Len(in)
            /\ \A i \in 1 .. (n - 1) :
                  /\ t[i].lowpc < t[i + 1].lowpc
                  /\ t[i].lowpc < t[i].highpc
                  /\ t[i].highpc <= t[i + 1].lowpc
            /\ \A j \in 1 .. n : \E i \in 1 .. n :
                  /\ t[i].lowpc = in[j].lowpc
                  /\ in[j].highpc > in[j].lowpc => t[i].highpc = in[j].highpc
                  /\ in[j].highpc = in[j].lowpc =>
                        t[i].highpc = IF i < n THEN t[i + 1].lowpc
                                      ELSE (in[j].lowpc + 1) % Mod

\* C4 witness: three ranges given out of order; the zero-width one is
\* filled up to its successor, the sized one leaves a gap.
C4_Witness ==
    /\ res.done /\ Len(arg.functab) = 3
    /\ NonOverlapping(arg.functab) /\ DistinctLows(arg.functab)
    /\ arg.functab[1].lowpc > arg.functab[2].lowpc
    /\ \E j \in 1 .. 3 : /\ arg.functab[j].lowpc = res.functab[1].lowpc
                         /\ arg.functab[j].highpc = arg.functab[j].lowpc
    /\ res.functab[1].highpc = res.functab[2].lowpc
    /\ res.functab[2].highpc < res.functab[3].lowpc

====
